---- MODULE Spec2Model ----
(***************************************************************************)
(* CRC-8 macros of embedded-crc-macros (src/src/lib.rs): the bitwise       *)
(* function (crc8!), the lookup-table function (crc8_lookup_table!), the   *)
(* two core::hash::Hasher implementations (crc8_hasher!,                   *)
(* crc8_hasher_lookup_table!) and the build-time table generator           *)
(* (build_rs_lookup_table_file_generation!).                               *)
(***************************************************************************)
EXTENDS Integers, Sequences, FiniteSets, TLC

VARIABLES
    poly,          \* $poly of the bitwise forms
    init,          \* $initial_value of the form under use
    tinit,         \* $initial_value of the crc8! function handed to the generator
    LOOKUP_TABLE,  \* the const LOOKUP_TABLE the lookup-table forms index
    form,          \* which macro's item this behaviour exercises
    input,         \* the byte sequence D handed to the form
    pos,           \* how many bytes of input the hasher was given so far
    hasher,        \* the hasher struct: <<>> before new(), then <<[crc |-> c]>>
    nwrites,       \* number of write calls made on the hasher
    nempty,        \* how many of them were given an empty slice
    nfin,          \* number of finish calls made on the hasher
    firstFin,      \* <<pos>> as it was at the first finish call
    last,          \* the last operation performed
    out,           \* <<v>> for the value the last call or finish returned
    outDirSet,     \* whether the environment variable OUT_DIR is set
    gpc,           \* the generator's position
    gi,            \* the generator's loop variable i
    file,          \* payloads of the successful write_all calls, in order
    ioCalls,       \* number of file operations the generator has issued
    okCalls,       \* how many of them returned Ok
    raised,        \* <<e>> for the io::Error a file operation returned
    gresult        \* <<>> while running, then <<"Ok">>, <<"Err", e>> or <<"panic">>

vars == <<poly, init, tinit, LOOKUP_TABLE, form, input, pos, hasher, nwrites,
          nempty, nfin, firstFin, last, out, outDirSet, gpc, gi, file, ioCalls,
          okCalls, raised, gresult>>

\* the macro parameters and the input: no call changes them
config == <<poly, init, tinit, LOOKUP_TABLE, form, input>>

engineVars == <<config, pos, hasher, nwrites, nempty, nfin, firstFin, last, out>>

genVars == <<outDirSet, gpc, gi, file, ioCalls, okCalls, raised, gresult>>

-----------------------------------------------------------------------------
(* Bounds of the model *)

\* longest sampled input sequence
MaxLen == 2

\* most write calls on one hasher
MaxWrites == 3

\* most finish calls on one hasher
MaxFinish == 2

\* number of sampled byte values
NumBytes == 2

-----------------------------------------------------------------------------
(* u8 arithmetic.  The loops below bind each new value of a u8 variable    *)
(* with LET and hand it on under CASE v \in Byte: the variable has type u8. *)

U8 == 256

Byte == 0 .. (U8 - 1)

\* a ^ b on u8
BitXor(a, b) ==
    LET X(k) == (((a \div k) + (b \div k)) % 2) * k
    IN  X(1) + X(2) + X(4) + X(8) + X(16) + X(32) + X(64) + X(128)

\* a & b on u8
BitAnd(a, b) ==
    LET X(k) == (((a \div k) % 2) * ((b \div k) % 2)) * k
    IN  X(1) + X(2) + X(4) + X(8) + X(16) + X(32) + X(64) + X(128)

\* a << n on u8: the bits shifted out are lost
Shl(a, n) == (a * (2 ^ n)) % U8

\* x as u64 for a u8 x: zero extension, the upper 56 bits are 0
AsU64(x) == x % U8

-----------------------------------------------------------------------------
(* crc8! *)

\* the slip of testing the low bit of crc instead of the high bit
ShiftStepLowBit(c, p) ==
    IF BitAnd(c, 1) # 0 THEN BitXor(Shl(c, 1), p) ELSE Shl(c, 1)

\* one pass of the inner loop body
ShiftStep(c, p) ==
    IF BitAnd(c, Shl(1, 7)) # 0 THEN BitXor(Shl(c, 1), p) ELSE Shl(c, 1)

RECURSIVE ShiftLoop(_, _, _)
\* for _ in 0..8 { ... }, with n passes left
ShiftLoop(c, p, n) ==
    IF n = 0 THEN c
    ELSE LET next == ShiftStep(c, p)
         IN  CASE next \in Byte -> ShiftLoop(next, p, n - 1)

\* the body of `for byte in data` of the bitwise forms
ByteStep(c, byte, p) ==
    LET x == BitXor(c, byte)
    IN  CASE x \in Byte -> ShiftLoop(x, p, 8)

RECURSIVE BitwiseLoop(_, _, _, _)
\* `for byte in data` of the bitwise forms, from index k on
BitwiseLoop(c, p, data, k) ==
    IF k > Len(data) THEN c
    ELSE LET next == ByteStep(c, data[k], p)
         IN  CASE next \in Byte -> BitwiseLoop(next, p, data, k + 1)

\* the slip of starting from 0 whatever $initial_value is
crc8_zero_start(p, initial_value, data) == BitwiseLoop(0, p, data, 1)

\* the function crc8!(name, p, initial_value, doc) defines
crc8(p, initial_value, data) == BitwiseLoop(initial_value, p, data, 1)

-----------------------------------------------------------------------------
(* crc8_lookup_table! *)

\* the slip of indexing the table with the byte alone
TableStepNoCrc(c, byte, table) == table[byte]

\* the body of `for byte in data` of the lookup-table forms
TableStep(c, byte, table) == table[BitXor(c, byte)]

RECURSIVE TableLoop(_, _, _, _)
\* `for byte in data` of the lookup-table forms, from index k on
TableLoop(c, table, data, k) ==
    IF k > Len(data) THEN c
    ELSE LET next == TableStep(c, data[k], table)
         IN  CASE next \in Byte -> TableLoop(next, table, data, k + 1)

\* the function crc8_lookup_table!(name, initial_value, doc) defines
crc8_lookup_table(initial_value, table, data) ==
    TableLoop(initial_value, table, data, 1)

-----------------------------------------------------------------------------
(* crc8_hasher! *)

\* $struct_name::new()
crc8_hasher_new(initial_value) == [crc |-> initial_value]

\* Hasher::write(&mut self, bytes)
crc8_hasher_write(self, bytes, p) ==
    [crc |-> BitwiseLoop(self.crc, p, bytes, 1)]

\* Hasher::finish(&self)
crc8_hasher_finish(self) == AsU64(self.crc)

-----------------------------------------------------------------------------
(* crc8_hasher_lookup_table! *)

\* $name::new()
crc8_hasher_lookup_table_new(initial_value) == [crc |-> initial_value]

\* Hasher::write(&mut self, bytes)
crc8_hasher_lookup_table_write(self, bytes, table) ==
    [crc |-> TableLoop(self.crc, table, bytes, 1)]

\* Hasher::finish(&self)
crc8_hasher_lookup_table_finish(self) == AsU64(self.crc)

-----------------------------------------------------------------------------
(* build_rs_lookup_table_file_generation!: the values *)

\* $size of the documented invocation (..., u8, 256)
TableSize == 256

\* $checksum_function(&[i as $t]) with $t = u8 and the crc8! function for
\* (p, initial_value)
TableEntry(p, initial_value, i) == crc8(p, initial_value, <<i % U8>>)

\* the table the generated file declares
GeneratedTable(p, initial_value) ==
    [i \in 0 .. (TableSize - 1) |-> TableEntry(p, initial_value, i)]

-----------------------------------------------------------------------------
(* The inputs the forms are exercised with *)

\* polynomials: degenerate 0, SMBus 0x07, Maxim 0x31 and the even 0x80
Polys == {0, 7, 49, 128}

\* initial values
Inits == {0, 3, 255}

\* byte values 0x55, 0xAA, 0xFF, 0x54, ...
SampleBytes == {(k * 85) % U8 : k \in 1 .. NumBytes}

RECURSIVE SeqsUpTo(_, _)
\* the sequences over S of length at most n
SeqsUpTo(S, n) ==
    IF n = 0 THEN {<<>>}
    ELSE LET shorter == SeqsUpTo(S, n - 1)
         IN  shorter \cup {Append(q, b) : q \in shorter, b \in S}

Inputs == SeqsUpTo(SampleBytes, MaxLen)

Forms == {"crc8", "crc8_lookup_table", "crc8_hasher", "crc8_hasher_lookup_table"}

\* the generator is not run in the behaviours that exercise the four forms
GenIdle ==
    /\ outDirSet = TRUE
    /\ gpc = "idle"
    /\ gi = 0
    /\ file = <<>>
    /\ ioCalls = 0
    /\ okCalls = 0
    /\ raised = <<>>
    /\ gresult = <<>>

EngineStart ==
    /\ pos = 0
    /\ hasher = <<>>
    /\ nwrites = 0
    /\ nempty = 0
    /\ nfin = 0
    /\ firstFin = <<>>
    /\ last = "start"
    /\ out = <<>>

LookupForms == {"crc8_lookup_table", "crc8_hasher_lookup_table"}

\* the table is generated from the crc8! function for poly with initial
\* value 0, or from the one with the initial value the lookup form is given
Init ==
    /\ poly \in Polys
    /\ init \in Inits
    /\ form \in Forms
    /\ tinit \in (IF form \in LookupForms THEN {0, init} ELSE {0})
    /\ LOOKUP_TABLE = GeneratedTable(poly, tinit)
    /\ input \in Inputs
    /\ EngineStart
    /\ GenIdle

\* the SMBus PEC checks of tests/crc8.rs, with ADDR = 0x5A, REGISTER = 0x06
PecVectors ==
    {<<180, 6, 171, 205>>, <<180, 6, 181, 38, 58>>, <<180, 6, 181, 107, 58>>,
     <<180, 6, 181, 97, 58>>, <<180, 6, 181, 225, 57>>}

\* crc8!(smbus_pec, 7, 0, ...) and the table for it
InitPec ==
    /\ poly = 7
    /\ init = 0
    /\ form \in Forms
    /\ tinit = 0
    /\ LOOKUP_TABLE = GeneratedTable(poly, tinit)
    /\ input \in PecVectors
    /\ EngineStart
    /\ GenIdle

-----------------------------------------------------------------------------
(* The calls a user of the four forms makes *)

\* let c = name(&input) for the crc8! function
CallCrc8 ==
    /\ form = "crc8"
    /\ last = "start"
    /\ out' = <<crc8(poly, init, input)>>
    /\ last' = "call"
    /\ UNCHANGED <<config, pos, hasher, nwrites, nempty, nfin, firstFin>>
    /\ UNCHANGED genVars

\* let c = name(&input) for the crc8_lookup_table! function
CallCrc8LookupTable ==
    /\ form = "crc8_lookup_table"
    /\ last = "start"
    /\ out' = <<crc8_lookup_table(init, LOOKUP_TABLE, input)>>
    /\ last' = "call"
    /\ UNCHANGED <<config, pos, hasher, nwrites, nempty, nfin, firstFin>>
    /\ UNCHANGED genVars

\* let mut hasher = SmbusPec::new() for the crc8_hasher! struct
HasherNew ==
    /\ form = "crc8_hasher"
    /\ hasher = <<>>
    /\ hasher' = <<crc8_hasher_new(init)>>
    /\ last' = "new"
    /\ UNCHANGED <<config, pos, nwrites, nempty, nfin, firstFin, out>>
    /\ UNCHANGED genVars

\* what a write call of n bytes and a finish call leave in the call counters
Wrote(n) ==
    /\ pos' = pos + n
    /\ nwrites' = nwrites + 1
    /\ nempty' = IF n = 0 THEN nempty + 1 ELSE nempty
    /\ last' = "write"
    /\ UNCHANGED <<config, nfin, firstFin, out>>

Finished ==
    /\ nfin' = nfin + 1
    /\ firstFin' = IF nfin = 0 THEN <<pos>> ELSE firstFin
    /\ last' = "finish"
    /\ UNCHANGED <<config, pos, nwrites, nempty>>

\* the slip of seeding self.crc again at the start of every write
HasherWriteReseed ==
    /\ form = "crc8_hasher"
    /\ hasher # <<>>
    /\ nwrites < MaxWrites
    /\ \E n \in 0 .. (Len(input) - pos) :
          /\ hasher' = <<crc8_hasher_write(crc8_hasher_new(init),
                                          SubSeq(input, pos + 1, pos + n), poly)>>
          /\ Wrote(n)
    /\ UNCHANGED genVars

\* hasher.write(chunk), chunk the next n bytes of input (n = 0: an empty write)
HasherWrite ==
    /\ form = "crc8_hasher"
    /\ hasher # <<>>
    /\ nwrites < MaxWrites
    /\ \E n \in 0 .. (Len(input) - pos) :
          /\ hasher' = <<crc8_hasher_write(hasher[1],
                                          SubSeq(input, pos + 1, pos + n), poly)>>
          /\ Wrote(n)
    /\ UNCHANGED genVars

\* the slip of a finish that starts the accumulator over
HasherFinishResets ==
    /\ form = "crc8_hasher"
    /\ hasher # <<>>
    /\ nfin < MaxFinish
    /\ out' = <<crc8_hasher_finish(hasher[1])>>
    /\ hasher' = <<crc8_hasher_new(init)>>
    /\ Finished
    /\ UNCHANGED genVars

\* let c = hasher.finish(): &self, the struct is not written
HasherFinish ==
    /\ form = "crc8_hasher"
    /\ hasher # <<>>
    /\ nfin < MaxFinish
    /\ out' = <<crc8_hasher_finish(hasher[1])>>
    /\ UNCHANGED hasher
    /\ Finished
    /\ UNCHANGED genVars

\* let mut hasher = SmbusPec::new() for the crc8_hasher_lookup_table! struct
TableHasherNew ==
    /\ form = "crc8_hasher_lookup_table"
    /\ hasher = <<>>
    /\ hasher' = <<crc8_hasher_lookup_table_new(init)>>
    /\ last' = "new"
    /\ UNCHANGED <<config, pos, nwrites, nempty, nfin, firstFin, out>>
    /\ UNCHANGED genVars

\* hasher.write(chunk), chunk the next n bytes of input (n = 0: an empty write)
TableHasherWrite ==
    /\ form = "crc8_hasher_lookup_table"
    /\ hasher # <<>>
    /\ nwrites < MaxWrites
    /\ \E n \in 0 .. (Len(input) - pos) :
          /\ hasher' = <<crc8_hasher_lookup_table_write(hasher[1],
                            SubSeq(input, pos + 1, pos + n), LOOKUP_TABLE)>>
          /\ Wrote(n)
    /\ UNCHANGED genVars

\* let c = hasher.finish(): &self, the struct is not written
TableHasherFinish ==
    /\ form = "crc8_hasher_lookup_table"
    /\ hasher # <<>>
    /\ nfin < MaxFinish
    /\ out' = <<crc8_hasher_lookup_table_finish(hasher[1])>>
    /\ UNCHANGED hasher
    /\ Finished
    /\ UNCHANGED genVars

Next ==
    \/ CallCrc8
    \/ CallCrc8LookupTable
    \/ HasherNew
    \/ HasherWrite
    \/ HasherFinish
    \/ TableHasherNew
    \/ TableHasherWrite
    \/ TableHasherFinish

Spec == Init /\ [][Next]_vars

SpecPec == InitPec /\ [][Next]_vars

-----------------------------------------------------------------------------
(* build_rs_lookup_table_file_generation!: the file.  A payload is the      *)
(* sequence of string pieces one write_all call is given; file holds the    *)
(* payloads of the calls that returned Ok.  What a failed write_all left in  *)
(* the file is not tracked.                                                 *)

\* concat!("const LOOKUP_TABLE: [", stringify!($t), ";", stringify!($size),
\* "] = [\n") for (u8, 256)
Header == <<"const LOOKUP_TABLE: [", "u8", ";", "256", "] = [\n">>

Indent == <<"    ">>

Newline == <<"\n">>

Footer == <<"];\n">>

HexDigits == <<"0", "1", "2", "3", "4", "5", "6", "7",
               "8", "9", "a", "b", "c", "d", "e", "f">>

\* {:02x}: padded with a zero to two digits
LowerHexPadded(n) == <<HexDigits[(n \div 16) + 1], HexDigits[(n % 16) + 1]>>

RECURSIVE LowerHex(_)
\* {:x}: lower-case hexadecimal, no prefix, no padding
LowerHex(n) ==
    IF n < 16 THEN <<HexDigits[n + 1]>>
    ELSE LowerHex(n \div 16) \o <<HexDigits[(n % 16) + 1]>>

\* format!("0x{:x}, ", v)
EntryPayload(v) == <<"0x">> \o LowerHex(v) \o <<", ">>

\* io::Error kinds a file operation may return
IoErrors == {"PermissionDenied", "StorageFull"}

\* outcomes of one file operation
IoOutcomes == {"ok"} \cup IoErrors

\* the slip of `let _ = file.write_all(payload);`: the error is dropped
WriteAllIgnoringError(payload, next_pc) ==
    /\ ioCalls' = ioCalls + 1
    /\ \E r \in IoOutcomes :
          IF r = "ok"
          THEN /\ file' = Append(file, payload)
               /\ okCalls' = okCalls + 1
               /\ UNCHANGED raised
          ELSE /\ raised' = <<r>>
               /\ UNCHANGED <<file, okCalls>>
    /\ gpc' = next_pc
    /\ UNCHANGED gresult

\* file.write_all(payload)?; then on to next_pc
WriteAll(payload, next_pc) ==
    /\ ioCalls' = ioCalls + 1
    /\ \E r \in IoOutcomes :
          IF r = "ok"
          THEN /\ file' = Append(file, payload)
               /\ okCalls' = okCalls + 1
               /\ gpc' = next_pc
               /\ UNCHANGED <<raised, gresult>>
          ELSE /\ raised' = <<r>>
               /\ gresult' = <<"Err", r>>
               /\ gpc' = "done"
               /\ UNCHANGED <<file, okCalls>>

\* std::env::var("OUT_DIR").unwrap(), and the path join
GenOutDir ==
    /\ gpc = "out_dir"
    /\ IF outDirSet
       THEN /\ gpc' = "create"
            /\ UNCHANGED gresult
       ELSE /\ gpc' = "done"
            /\ gresult' = <<"panic">>
    /\ UNCHANGED <<outDirSet, gi, file, ioCalls, okCalls, raised>>
    /\ UNCHANGED engineVars

\* the slip of File::create(out_path).unwrap()
GenCreateUnwrap ==
    /\ gpc = "create"
    /\ ioCalls' = ioCalls + 1
    /\ \E r \in IoOutcomes :
          IF r = "ok"
          THEN /\ file' = <<>>
               /\ okCalls' = okCalls + 1
               /\ gpc' = "header"
               /\ UNCHANGED <<raised, gresult>>
          ELSE /\ raised' = <<r>>
               /\ gresult' = <<"panic">>
               /\ gpc' = "done"
               /\ UNCHANGED <<file, okCalls>>
    /\ UNCHANGED <<outDirSet, gi>>
    /\ UNCHANGED engineVars

\* let mut file = std::fs::File::create(out_path)?;
GenCreate ==
    /\ gpc = "create"
    /\ ioCalls' = ioCalls + 1
    /\ \E r \in IoOutcomes :
          IF r = "ok"
          THEN /\ file' = <<>>
               /\ okCalls' = okCalls + 1
               /\ gpc' = "header"
               /\ UNCHANGED <<raised, gresult>>
          ELSE /\ raised' = <<r>>
               /\ gresult' = <<"Err", r>>
               /\ gpc' = "done"
               /\ UNCHANGED <<file, okCalls>>
    /\ UNCHANGED <<outDirSet, gi>>
    /\ UNCHANGED engineVars

\* file.write_all(concat!(...).as_bytes())?;
GenHeader ==
    /\ gpc = "header"
    /\ WriteAll(Header, "indent")
    /\ UNCHANGED <<outDirSet, gi>>
    /\ UNCHANGED engineVars

\* the slip of dropping the result of the indentation write
GenIndentIgnoringError ==
    /\ gpc = "indent"
    /\ IF gi % 16 = 0
       THEN WriteAllIgnoringError(Indent, "entry")
       ELSE /\ gpc' = "entry"
            /\ UNCHANGED <<file, ioCalls, okCalls, raised, gresult>>
    /\ UNCHANGED <<outDirSet, gi>>
    /\ UNCHANGED engineVars

\* if i % 16 == 0 { file.write_all(b"    ")?; }
GenIndent ==
    /\ gpc = "indent"
    /\ IF gi % 16 = 0
       THEN WriteAll(Indent, "entry")
       ELSE /\ gpc' = "entry"
            /\ UNCHANGED <<file, ioCalls, okCalls, raised, gresult>>
    /\ UNCHANGED <<outDirSet, gi>>
    /\ UNCHANGED engineVars

\* the slip of calling the checksum function on i + 1
GenEntryOffByOne ==
    /\ gpc = "entry"
    /\ WriteAll(EntryPayload(TableEntry(poly, tinit, gi + 1)), "newline")
    /\ UNCHANGED <<outDirSet, gi>>
    /\ UNCHANGED engineVars

\* file.write_all(format!("0x{:x}, ", $checksum_function(&[i as $t])).as_bytes())?;
GenEntry ==
    /\ gpc = "entry"
    /\ WriteAll(EntryPayload(TableEntry(poly, tinit, gi)), "newline")
    /\ UNCHANGED <<outDirSet, gi>>
    /\ UNCHANGED engineVars

\* where the loop goes after the pass for i
AfterPass(i) == IF i + 1 < TableSize THEN "indent" ELSE "footer"

\* if i > 0 && (i + 1) % 16 == 0 { file.write_all(b"\n")?; } and the next i
GenNewline ==
    /\ gpc = "newline"
    /\ IF gi > 0 /\ (gi + 1) % 16 = 0
       THEN WriteAll(Newline, AfterPass(gi))
       ELSE /\ gpc' = AfterPass(gi)
            /\ UNCHANGED <<file, ioCalls, okCalls, raised, gresult>>
    /\ gi' = IF gpc' = "done" THEN gi ELSE gi + 1
    /\ UNCHANGED outDirSet
    /\ UNCHANGED engineVars

\* file.write_all(b"];\n"): its result is the function's result
GenFooter ==
    /\ gpc = "footer"
    /\ ioCalls' = ioCalls + 1
    /\ \E r \in IoOutcomes :
          IF r = "ok"
          THEN /\ file' = Append(file, Footer)
               /\ okCalls' = okCalls + 1
               /\ gresult' = <<"Ok">>
               /\ UNCHANGED raised
          ELSE /\ raised' = <<r>>
               /\ gresult' = <<"Err", r>>
               /\ UNCHANGED <<file, okCalls>>
    /\ gpc' = "done"
    /\ UNCHANGED <<outDirSet, gi>>
    /\ UNCHANGED engineVars

\* the four forms are not called while the build script runs
EngineIdle ==
    /\ init = 0
    /\ form = "none"
    /\ input = <<>>
    /\ EngineStart

\* write_file() is called from the build script's main
InitGen ==
    /\ poly \in Polys
    /\ tinit \in Inits
    /\ LOOKUP_TABLE = [i \in 0 .. (TableSize - 1) |-> 0]
    /\ EngineIdle
    /\ outDirSet \in BOOLEAN
    /\ gpc = "out_dir"
    /\ gi = 0
    /\ file = <<>>
    /\ ioCalls = 0
    /\ okCalls = 0
    /\ raised = <<>>
    /\ gresult = <<>>

NextGen ==
    \/ GenOutDir
    \/ GenCreate
    \/ GenHeader
    \/ GenIndent
    \/ GenEntry
    \/ GenNewline
    \/ GenFooter

SpecGen == InitGen /\ [][NextGen]_vars

-----------------------------------------------------------------------------
(* What the properties below speak of *)

\* the bytes the hasher has been given so far, all write calls together
Written == SubSeq(input, 1, pos)

\* one write of the whole of Written on a fresh hasher of the form, then finish
BatchFinish ==
    IF form = "crc8_hasher"
    THEN crc8_hasher_finish(
             crc8_hasher_write(crc8_hasher_new(init), Written, poly))
    ELSE crc8_hasher_lookup_table_finish(
             crc8_hasher_lookup_table_write(
                 crc8_hasher_lookup_table_new(init), Written, LOOKUP_TABLE))

\* the checksum the function of the same family returns for Written
ChecksumOfWritten ==
    IF form = "crc8_hasher"
    THEN crc8(poly, init, Written)
    ELSE crc8_lookup_table(init, LOOKUP_TABLE, Written)

\* the expected values asserted in tests/crc8.rs
PecExpected(data) ==
    CASE data = <<180, 6, 171, 205>> -> 95
      [] data = <<180, 6, 181, 38, 58>> -> 102
      [] data = <<180, 6, 181, 107, 58>> -> 212
      [] data = <<180, 6, 181, 97, 58>> -> 86
      [] data = <<180, 6, 181, 225, 57>> -> 233

-----------------------------------------------------------------------------
(* C1.  With LOOKUP_TABLE[i] the bitwise checksum of the single byte i for   *)
(* poly and initial value 0, the crc8! function for (poly, init) and the     *)
(* crc8_lookup_table! function for init return the same checksum on every    *)
(* input: whichever of the two was called returned what the other returns.   *)
C1_FunctionsAgree ==
    (last = "call" /\ tinit = 0) =>
        out[1] = (IF form = "crc8"
                  THEN crc8_lookup_table(init, GeneratedTable(poly, 0), input)
                  ELSE crc8(poly, init, input))

C1_Witness ==
    /\ last = "call"
    /\ form = "crc8_lookup_table"
    /\ tinit = 0
    /\ poly = 49
    /\ init = 255
    /\ input = <<170, 85>>
    /\ out # <<init>>

(* C2 as stated.  With the table generated from the crc8! function for the   *)
(* same poly and the same initial value init, the crc8_lookup_table!         *)
(* function for init returns the crc8! function's checksum on every input.   *)
C2_SameInitialValueTable ==
    (last = "call" /\ form = "crc8_lookup_table" /\ tinit = init) =>
        out[1] = crc8(poly, init, input)

(* C2 as amended.  With that table the two agree on every input when the     *)
(* bitwise checksum for (poly, initial value 0) of the one-byte sequence     *)
(* [init] is 0, as it is for init = 0; when it is not 0 they differ on       *)
(* every one-byte input.                                                     *)
C2_AgreeIffInitMapsToZero ==
    (last = "call" /\ form = "crc8_lookup_table" /\ tinit = init) =>
        IF crc8(poly, 0, <<init>>) = 0
        THEN out[1] = crc8(poly, init, input)
        ELSE Len(input) = 1 => out[1] # crc8(poly, init, input)

C2_Witness ==
    /\ last = "call"
    /\ form = "crc8_lookup_table"
    /\ tinit = init
    /\ init # 0
    /\ poly # 0
    /\ crc8(poly, 0, <<init>>) = 0
    /\ Len(input) = 2

(* C3.  For both hashers: after new(), one write per consecutive chunk of    *)
(* the input (empty chunks included) and then finish(), the result is the    *)
(* one a fresh hasher gives after a single write of all those bytes.         *)
C3_IncrementalEqualsBatch ==
    (last = "finish" /\ nfin = 1) => out[1] = BatchFinish

C3_Witness ==
    /\ last = "finish"
    /\ nfin = 1
    /\ form = "crc8_hasher"
    /\ poly = 7
    /\ input = <<85, 170>>
    /\ pos = 2
    /\ nwrites = 3
    /\ nempty = 1

(* C4.  For the SMBus PEC parameters each of the four forms returns the      *)
(* value tests/crc8.rs expects for each of its five inputs, however the      *)
(* hashers are given the bytes.                                              *)
C4_PecValues ==
    ((last = "call") \/ (last = "finish" /\ pos = Len(input))) =>
        out[1] = PecExpected(input)

C4_Witness ==
    /\ last = "finish"
    /\ form = "crc8_hasher_lookup_table"
    /\ input = <<180, 6, 181, 225, 57>>
    /\ pos = 5
    /\ nwrites = 2
    /\ out = <<233>>

(* C5.  A finish call leaves the hasher as it was and returns the checksum   *)
(* of all the bytes written before it, whatever finish calls came earlier.   *)
C5_FinishKeepsAccumulator ==
    [][(nfin' = nfin + 1) =>
          /\ hasher' = hasher
          /\ out' = <<AsU64(ChecksumOfWritten)>>]_vars

C5_Witness ==
    /\ last = "finish"
    /\ nfin = 2
    /\ firstFin = <<1>>
    /\ pos = 2
    /\ form = "crc8_hasher_lookup_table"
    /\ poly = 7
    /\ tinit = 0
    /\ out # <<init>>

(* C9.  On the empty sequence both functions return the initial value, and   *)
(* a hasher that was given no byte (no write, or empty writes only) returns  *)
(* the initial value from finish().                                          *)
C9_EmptyInput ==
    /\ (last = "call" /\ input = <<>>) => out = <<init>>
    /\ (last = "finish" /\ pos = 0) => out = <<init>>

C9_Witness ==
    /\ last = "finish"
    /\ pos = 0
    /\ nwrites = 2
    /\ nempty = 2
    /\ init = 255
    /\ poly = 7
    /\ out = <<255>>

-----------------------------------------------------------------------------
(* Reading the generated file back, as the compiler reads the included      *)
(* declaration: the payloads that are array elements, and their values.     *)

\* a payload that is one array element: "0x", hexadecimal digits, ", "
IsEntry(payload) ==
    /\ Len(payload) >= 3
    /\ payload[1] = "0x"
    /\ payload[Len(payload)] = ", "

\* the digits of an element
Digits(payload) == SubSeq(payload, 2, Len(payload) - 1)

\* the value of one hexadecimal digit
DigitValue(ch) == CHOOSE d \in 0 .. 15 : HexDigits[d + 1] = ch

RECURSIVE HexValue(_)
\* the value of a hexadecimal integer literal's digits
HexValue(digits) ==
    IF digits = <<>> THEN 0
    ELSE 16 * HexValue(SubSeq(digits, 1, Len(digits) - 1))
         + DigitValue(digits[Len(digits)])

\* the elements in file order
Entries == SelectSeq(file, IsEntry)

\* the array the file declares, indexed from 0
DeclaredTable == [i \in 0 .. (Len(Entries) - 1) |-> HexValue(Digits(Entries[i + 1]))]

\* positions in file of the elements, and the text line each is on: lines
\* break after the header and after each newline payload
EntryPositions == {k \in 1 .. Len(file) : IsEntry(file[k])}

LineOf(k) == Cardinality({j \in 1 .. (k - 1) : file[j] = Newline})

ValuesOnLine(l) == Cardinality({k \in EntryPositions : LineOf(k) = l})

Errs == {<<"Err", e>> : e \in IoErrors}

(* C6.  Given the crc8! function for poly with initial value 0, the file a   *)
(* successful run wrote declares exactly 256 values, the one at index i      *)
(* being that function's checksum of [i]; for poly = 7 these are what each   *)
(* of the four forms returns for the single byte i.                          *)
C6_TableCorrect ==
    (gresult = <<"Ok">> /\ tinit = 0) =>
        /\ Len(Entries) = 256
        /\ \A i \in 0 .. 255 :
              /\ DeclaredTable[i] = crc8(poly, 0, <<i>>)
              /\ poly = 7 =>
                    /\ crc8_lookup_table(0, DeclaredTable, <<i>>) = DeclaredTable[i]
                    /\ crc8_hasher_finish(
                           crc8_hasher_write(crc8_hasher_new(0), <<i>>, 7))
                       = DeclaredTable[i]
                    /\ crc8_hasher_lookup_table_finish(
                           crc8_hasher_lookup_table_write(
                               crc8_hasher_lookup_table_new(0), <<i>>,
                               DeclaredTable))
                       = DeclaredTable[i]

C6_Witness ==
    /\ gresult = <<"Ok">>
    /\ tinit = 0
    /\ poly = 7
    /\ Len(file) = 290
    /\ file[21] = <<"0x", "7", "0", ", ">>

(* C7.  A failed File::create or write_all ends the run at once with that    *)
(* error as the result: it is the last file operation issued, and Ok is      *)
(* returned only without any failure and with the header, all 256 elements   *)
(* and the closing bracket written.                                          *)
C7_ErrorPropagates ==
    /\ raised # <<>> =>
          /\ gresult = <<"Err", raised[1]>>
          /\ gpc = "done"
          /\ ioCalls = okCalls + 1
    /\ gresult \in Errs => raised # <<>>
    /\ gresult = <<"Ok">> =>
          /\ raised = <<>>
          /\ ioCalls = okCalls
          /\ okCalls = Len(file) + 1
          /\ file[1] = Header
          /\ Len(Entries) = 256
          /\ file[Len(file)] = Footer

C7_Witness ==
    /\ raised = <<"StorageFull">>
    /\ gresult = <<"Err", "StorageFull">>
    /\ gpc = "done"
    /\ gi = 100
    /\ Len(Entries) = 100
    /\ ioCalls = Len(file) + 2

C10_TwoDigitLiterals ==
    gresult = <<"Ok">> =>
        /\ \A l \in 0 .. 15 : ValuesOnLine(l) = 16
        /\ \A k \in EntryPositions : LineOf(k) \in 0 .. 15
        /\ \A k \in EntryPositions : Len(Digits(file[k])) = 2

(* C10 as amended.  The 256 values stand 16 to a line on 16 lines, each as   *)
(* 0x and the lower-case hexadecimal digits of the value without a leading   *)
(* zero: one digit for the values below 16, two digits for the others.       *)
C10_UnpaddedLiterals ==
    gresult = <<"Ok">> =>
        /\ \A l \in 0 .. 15 : ValuesOnLine(l) = 16
        /\ \A k \in EntryPositions : LineOf(k) \in 0 .. 15
        /\ \A k \in EntryPositions :
              LET v == HexValue(Digits(file[k]))
              IN  /\ v \in Byte
                  /\ Len(Digits(file[k])) = (IF v < 16 THEN 1 ELSE 2)
                  /\ \A j \in 1 .. Len(Digits(file[k])) :
                        \E d \in 1 .. 16 : Digits(file[k])[j] = HexDigits[d]

C10_Witness ==
    /\ gresult = <<"Ok">>
    /\ poly = 49
    /\ tinit = 0
    /\ file[3] = <<"0x", "0", ", ">>
    /\ file[4] = <<"0x", "3", "1", ", ">>
    /\ file[19] = Newline
    /\ file[20] = Indent

====
